---- MODULE Spec2Model ----
(***************************************************************************)
(* Inbound-message pipeline of protein-agent: POST /webhooks enqueues a    *)
(* job on the 'webhooks' queue, the webhook worker's processor filters the *)
(* event, resolves the user, invokes the agent and sends the reply.        *)
(* Strings are sequences of one-character strings; an optional value is    *)
(* None (undefined) or Some(v).                                            *)
(***************************************************************************)
EXTENDS Integers, Sequences, FiniteSets, TLC

\* ---------------------------------------------------------------- bounds
MaxJobs == 1
MaxManualRetries == 1
MaxRequests == 2
NumWorkers == 2
MaxEntries == 2

\* ------------------------------------------------------- optional values
None == << >>
Some(v) == << v >>
IsSome(o) == Len(o) = 1
Val(o) == o[1]

\* ---------------------------------------------------------------- strings
Digits == {"5"}
Includes(s, c) == \E i \in 1..Len(s) : s[i] = c
IndexOf(s, c) == CHOOSE i \in 1..Len(s) : s[i] = c /\ \A k \in 1..(i - 1) : s[k] # c
\* s.split(c)[0]
SplitHead(s, c) == IF Includes(s, c) THEN SubSeq(s, 1, IndexOf(s, c) - 1) ELSE s
RECURSIVE TrimStart(_)
TrimStart(s) == IF Len(s) > 0 /\ s[1] = " " THEN TrimStart(Tail(s)) ELSE s
RECURSIVE TrimEnd(_)
TrimEnd(s) == IF Len(s) > 0 /\ s[Len(s)] = " " THEN TrimEnd(SubSeq(s, 1, Len(s) - 1)) ELSE s
Trim(s) == TrimEnd(TrimStart(s))
\* /^\d+$/.test(s)
IsNumeric(s) == Len(s) > 0 /\ \A i \in 1..Len(s) : s[i] \in Digits
\* JavaScript truthiness of an optional string: undefined and "" are falsy
Truthy(o) == IsSome(o) /\ Len(Val(o)) > 0

\* ------------------------------------------------------------- job payload
MessagesUpsert == "messages.upsert"
StatusUpdate == "status.update"
EventKinds == {None, Some(MessagesUpsert), Some(StatusUpdate)}
RemoteJids == {None, Some(<< >>), Some(<<"5", "5">>), Some(<<"5", "@", "s", "@", "5">>), Some(<<"@", "5">>)}
Conversations == {None, Some(<< >>), Some(<<"h", "i">>)}
\* EvolutionWebhookBody without its jobData field
Envelopes ==
    [event : {Some(MessagesUpsert)}, remoteJid : RemoteJids, conversation : Conversations]
        \cup [event : EventKinds, remoteJid : {None, Some(<<"5", "5">>)},
              conversation : {None, Some(<<"h", "i">>)}]
FullEnvelope == [event |-> Some(MessagesUpsert), remoteJid |-> Some(<<"5", "5">>), conversation |-> Some(<<"h", "i">>)]
EmptyEnvelope == [event |-> None, remoteJid |-> None, conversation |-> None]
StatusEnvelope == [event |-> Some(StatusUpdate), remoteJid |-> Some(<<"5", "5">>), conversation |-> Some(<<"h", "i">>)]
\* EvolutionWebhookBody: the top-level fields, the optional jobData.body, and
\* the jobData.body that envelope may carry in turn
EvolutionWebhookBody ==
    [top : Envelopes, nested : {None}, deeper : {None}]
        \cup {[top |-> EmptyEnvelope, nested |-> Some(FullEnvelope), deeper |-> None],
              [top |-> FullEnvelope, nested |-> Some(StatusEnvelope), deeper |-> None],
              [top |-> FullEnvelope, nested |-> Some(EmptyEnvelope), deeper |-> None],
              [top |-> EmptyEnvelope, nested |-> Some(StatusEnvelope), deeper |-> Some(FullEnvelope)]}
\* WebhookJobData.body is unknown: an object of the shape above, or undefined
WebhookJobData == {None} \cup {Some(b) : b \in EvolutionWebhookBody}

\* --------------------------------------------------- external collaborators
\* contextService.getUserByPhone: a user, UserNotFoundError, or another error
UserAnswers == {"found", "UserNotFoundError", "DatabaseError"}
UserId == 1
\* createProteinAgent(user.id): an agent, or a thrown error
CreateAnswers == {"agent", "throw"}
\* agent.invoke: the content of the last message (string or array), or a throw
InvokeAnswers == {"text", "empty", "blank", "array", "throw"}
AnswerContent(a) ==
    CASE a = "text" -> [isString |-> TRUE, val |-> <<"o", "k">>]
      [] a = "empty" -> [isString |-> TRUE, val |-> << >>]
      [] a = "blank" -> [isString |-> TRUE, val |-> <<" ">>]
      [] OTHER -> [isString |-> FALSE, val |-> << >>]
\* JSON.stringify of an (empty) array content
JsonStringify(c) == <<"[">> \o c.val \o <<"]">>
\* fetch and the reading of its response
FetchAnswers == {"200", "200 invalid json", "500", "AbortError", "fetch failed", "ENOTFOUND", "other"}

\* ------------------------------------------------------------ the queue
\* attempts of a job added without job options
Attempts == 1
\* concurrency of a Worker created with { connection } only
Concurrency == 1
JobIds == 1..MaxJobs

Call(op, phone, userId, text) == [op |-> op, phone |-> phone, userId |-> userId, text |-> text]
Answer(op, ans) == [op |-> op, ans |-> ans]

VARIABLES
    jobs,         \* job id -> [state, data, attemptsMade, autoRetries, manualRetries]
    wait,         \* the queue's wait list, head first
    pc,           \* job id -> the await the processor is suspended at
    phoneNumber,  \* job id -> the processor's phoneNumber
    user,         \* job id -> the processor's user.id (0: not resolved)
    messageText,  \* job id -> the processor's messageText
    answer,       \* job id -> the processor's answer
    calls,        \* job id -> calls made by the running execution, in order
    answers,      \* job id -> what the collaborators answered to the running execution
    runs,         \* job id -> the finished executions, in order
    apiKey,       \* config.AUTHENTICATION_API_KEY is set
    agentOk,      \* job id -> number of agent invocations that returned
    sendFailed    \* job id -> a delivery of this job failed

vars == <<jobs, wait, pc, phoneNumber, user, messageText, answer, calls, answers, runs,
          apiKey, agentOk, sendFailed>>

\* the ingress, the queue and the worker processes seen from the broker
VARIABLES
    requests,     \* POST /webhooks requests: [body, enqueue, status (0: unanswered)]
    queue,        \* job id -> [body, request, state, attempts (results, in order)]
    waiting,      \* the wait list of the 'webhooks' queue, head first
    running,      \* worker process -> the job its processor runs (0: none)
    handed,       \* job ids in the order they were handed to a worker
    worker,       \* worker process -> "running", "closing", "closing again", "exited"
    retried,      \* operator retries so far
    broker        \* the Redis connection: "down" (connecting, reconnecting) or "up"

qvars == <<requests, queue, waiting, running, handed, worker, retried, broker>>

\* one sendTextMessage call of the processor, step by step
VARIABLES
    sendPc,        \* "idle", "fetching", "reading", "returned", "thrown"
    sendArgs,      \* the call's phoneNumber and text, and whether the API key is set
    timeoutId,     \* the 30 s timer: "unset", "armed", "cleared", "fired"
    httpRequests,  \* the requests fetch has sent, in order
    response,      \* the response whose headers fetch resolved with, if any
    thrown,        \* the error sendTextMessage threw, if any
    jobOutcome     \* the surrounding job: "active", "completed", "failed"

svars == <<sendPc, sendArgs, timeoutId, httpRequests, response, thrown, jobOutcome>>

\* the protein entries and the tool calls that record and delete them
VARIABLES
    tz,           \* the server's offset from UTC, in half days
    targets,      \* user id -> the user's daily target, if any
    entries,      \* the rows of protein_entries
    nextId,       \* the next autoincrement id
    call,         \* caller -> the tool call it makes: position, arguments, response
    removed       \* the rows deleted so far, each with the user id of the call

rvars == <<tz, targets, entries, nextId, call, removed>>

allvars == <<vars, qvars, svars, rvars>>

locals == <<phoneNumber, user, messageText, answer>>

NoJob == [state |-> "none", data |-> None, attemptsMade |-> 0, autoRetries |-> 0, manualRetries |-> 0]

Init ==
    /\ jobs = [j \in JobIds |-> NoJob]
    /\ wait = << >>
    /\ pc = [j \in JobIds |-> "idle"]
    /\ phoneNumber = [j \in JobIds |-> << >>]
    /\ user = [j \in JobIds |-> 0]
    /\ messageText = [j \in JobIds |-> << >>]
    /\ answer = [j \in JobIds |-> << >>]
    /\ calls = [j \in JobIds |-> << >>]
    /\ answers = [j \in JobIds |-> << >>]
    /\ runs = [j \in JobIds |-> << >>]
    /\ apiKey \in BOOLEAN
    /\ agentOk = [j \in JobIds |-> 0]
    /\ sendFailed = [j \in JobIds |-> FALSE]

\* POST /webhooks: webhookQueue.add('process-webhook', { body: req.body })
PostWebhook(body) ==
    /\ \E j \in JobIds :
        /\ jobs[j].state = "none"
        /\ \A k \in JobIds : k < j => jobs[k].state # "none"
        /\ jobs' = [jobs EXCEPT ![j] = [NoJob EXCEPT !.state = "waiting", !.data = body]]
        /\ wait' = Append(wait, j)
    /\ UNCHANGED <<pc, locals, calls, answers, runs, apiKey, agentOk, sendFailed>>
    /\ UNCHANGED <<qvars, svars, rvars>>

\* the processor returned or threw: the queue settles the job.  A thrown
\* error is retried while attemptsMade + 1 < attempts, else the job is failed.
Settle(j, w, result, cs, as, delivery) ==
    LET retry == result = "failed" /\ jobs[j].attemptsMade + 1 < Attempts IN
    /\ jobs' = [jobs EXCEPT ![j].state = IF retry THEN "waiting" ELSE result,
                            ![j].attemptsMade = @ + 1,
                            ![j].autoRetries = IF retry THEN @ + 1 ELSE @]
    /\ wait' = IF retry THEN Append(w, j) ELSE w
    /\ runs' = [runs EXCEPT ![j] = Append(@, [data |-> jobs[j].data, calls |-> cs, answers |-> as,
                                               result |-> result, delivery |-> delivery])]
    /\ pc' = [pc EXCEPT ![j] = "idle"]
    /\ calls' = [calls EXCEPT ![j] = << >>]
    /\ answers' = [answers EXCEPT ![j] = << >>]
    /\ phoneNumber' = [phoneNumber EXCEPT ![j] = << >>]
    /\ user' = [user EXCEPT ![j] = 0]
    /\ messageText' = [messageText EXCEPT ![j] = << >>]
    /\ answer' = [answer EXCEPT ![j] = << >>]

\* body.jobData?.body || body
\* variant: the unwrapping goes on to the innermost envelope
WebhookDataDeep(body) ==
    IF IsSome(body.deeper) THEN Val(body.deeper)
    ELSE IF IsSome(body.nested) THEN Val(body.nested) ELSE body.top
WebhookData(body) == IF IsSome(body.nested) THEN Val(body.nested) ELSE body.top
\* the finished executions of all jobs
AllRuns == UNION {{runs[j][i] : i \in 1..Len(runs[j])} : j \in JobIds}
\* variant: splits at the last '@' instead of the first
PhoneNumberLastAt(remoteJid) ==
    IF Includes(remoteJid, "@")
    THEN SubSeq(remoteJid, 1, (CHOOSE i \in 1..Len(remoteJid) :
            remoteJid[i] = "@" /\ \A k \in (i + 1)..Len(remoteJid) : remoteJid[k] # "@") - 1)
    ELSE remoteJid
\* remoteJid.includes('@') ? remoteJid.split('@')[0] : remoteJid
PhoneNumber(remoteJid) == IF Includes(remoteJid, "@") THEN SplitHead(remoteJid, "@") ELSE remoteJid
\* variant: skips only the known non-message kind
SkipEventStatusOnly(webhookData) == webhookData.event = Some(StatusUpdate)
\* variant: also skips an event the worker has processed before
SkipEventSeenBefore(webhookData) ==
    \/ webhookData.event # Some(MessagesUpsert)
    \/ \E r \in AllRuns : IsSome(r.data) /\ WebhookData(Val(r.data)) = webhookData
\* webhookData.event !== 'messages.upsert'
SkipEvent(webhookData) == webhookData.event # Some(MessagesUpsert)
\* variant: the outer catch logs and does not rethrow
OuterCatchSwallow(err) == "completed"
\* the outer catch logs and rethrows: the job's result after a thrown error
OuterCatch(err) == "failed"
\* variant: every resolution error is rethrown
ResolveCatchRethrowAll(err) == OuterCatch(err)
\* variant: every resolution error is treated as not-found
ResolveCatchSwallowAll(err) == "completed"
\* the catch around getUserByPhone: return on UserNotFoundError, else rethrow
ResolveCatch(err) == IF err = "UserNotFoundError" THEN "completed" ELSE OuterCatch(err)

\* the worker takes the head of the wait list and runs the processor up to
\* its first await (getUserByPhone), or to its return or throw
ProcessorStart(j) ==
    /\ Len(wait) > 0 /\ Head(wait) = j
    /\ Cardinality({k \in JobIds : jobs[k].state = "active"}) < Concurrency
    /\ LET body == jobs[j].data IN
       IF ~IsSome(body)
       THEN \* body.jobData on undefined throws a TypeError: the outer catch rethrows
            Settle(j, Tail(wait), OuterCatch("TypeError"), << >>, << >>, "none")
       ELSE LET webhookData == WebhookData(Val(body))
                remoteJid == webhookData.remoteJid IN
            IF SkipEvent(webhookData) \/ ~Truthy(remoteJid)
            THEN Settle(j, Tail(wait), "completed", << >>, << >>, "none")
            ELSE /\ jobs' = [jobs EXCEPT ![j].state = "active"]
                 /\ wait' = Tail(wait)
                 /\ phoneNumber' = [phoneNumber EXCEPT ![j] = PhoneNumber(Val(remoteJid))]
                 /\ messageText' = [messageText EXCEPT ![j] = webhookData.conversation]
                 /\ calls' = [calls EXCEPT ![j] =
                        <<Call("getUserByPhone", PhoneNumber(Val(remoteJid)), 0, << >>)>>]
                 /\ pc' = [pc EXCEPT ![j] = "getUserByPhone"]
                 /\ UNCHANGED <<user, answer, answers, runs>>
    /\ UNCHANGED <<apiKey, agentOk, sendFailed>>
    /\ UNCHANGED <<qvars, svars, rvars>>

\* await contextService.getUserByPhone(phoneNumber) settles; the processor
\* runs on to createProteinAgent, or to its return or throw
GetUserByPhoneReturn(j, a) ==
    /\ pc[j] = "getUserByPhone"
    /\ LET as == Append(answers[j], Answer("getUserByPhone", a)) IN
       CASE a # "found" -> Settle(j, wait, ResolveCatch(a), calls[j], as, "none")
         [] OTHER ->
            IF ~Truthy(messageText[j])
            THEN Settle(j, wait, "completed", calls[j], as, "none")
            ELSE /\ user' = [user EXCEPT ![j] = UserId]
                 /\ answers' = [answers EXCEPT ![j] = as]
                 /\ calls' = [calls EXCEPT ![j] = Append(@, Call("createProteinAgent", << >>, UserId, << >>))]
                 /\ pc' = [pc EXCEPT ![j] = "createProteinAgent"]
                 /\ UNCHANGED <<jobs, wait, phoneNumber, messageText, answer, runs>>
    /\ UNCHANGED <<apiKey, agentOk, sendFailed>>
    /\ UNCHANGED <<qvars, svars, rvars>>

\* await createProteinAgent(user.id) settles; the processor calls agent.invoke
CreateProteinAgentReturn(j, a) ==
    /\ pc[j] = "createProteinAgent"
    /\ LET as == Append(answers[j], Answer("createProteinAgent", a)) IN
       IF a = "throw"
       THEN Settle(j, wait, OuterCatch("Error"), calls[j], as, "none")
       ELSE /\ answers' = [answers EXCEPT ![j] = as]
            /\ calls' = [calls EXCEPT ![j] = Append(@, Call("invoke", << >>, user[j], Val(messageText[j])))]
            /\ pc' = [pc EXCEPT ![j] = "invoke"]
            /\ UNCHANGED <<jobs, wait, locals, runs>>
    /\ UNCHANGED <<apiKey, agentOk, sendFailed>>
    /\ UNCHANGED <<qvars, svars, rvars>>

\* phoneNumber.includes('@') ? phoneNumber.split('@')[0] : phoneNumber.trim()
CleanPhoneNumber(phone) == IF Includes(phone, "@") THEN SplitHead(phone, "@") ELSE Trim(phone)
\* variant: the digits test reads the id as it was passed
SendValidationRaw(phone, text, key) ==
    CASE Len(phone) = 0 \/ Len(Trim(phone)) = 0 -> "ValidationError"
      [] ~IsNumeric(phone) -> "ValidationError"
      [] Len(text) = 0 \/ Len(Trim(text)) = 0 -> "ValidationError"
      [] ~key -> "ConfigurationError"
      [] OTHER -> "none"
\* sendTextMessage's checks before the request: the error they throw, or "none"
SendValidation(phone, text, key) ==
    CASE Len(phone) = 0 \/ Len(Trim(phone)) = 0 -> "ValidationError"
      [] ~IsNumeric(CleanPhoneNumber(phone)) -> "ValidationError"
      [] Len(text) = 0 \/ Len(Trim(text)) = 0 -> "ValidationError"
      [] ~key -> "ConfigurationError"
      [] OTHER -> "none"

\* how sendTextMessage settles for what fetch and the response reading did
SendOutcome(f) == IF f = "200" THEN "sent" ELSE "ApiError"

\* variant: a delivery error is rethrown to the outer catch
SendCatchRethrow(err) == OuterCatch(err)
\* variant: only a transport error is rethrown, to have the queue retry it
SendCatchRethrowApiError(err) == IF err = "ApiError" THEN OuterCatch(err) ELSE "completed"
\* the catch around sendTextMessage: the job's result after a delivery error
SendCatch(err) == "completed"

\* variant: the content is always passed through JSON.stringify
RenderAnswerStringify(answerContent) == JsonStringify(answerContent)
\* typeof answerContent === 'string' ? answerContent : JSON.stringify(answerContent)
RenderAnswer(answerContent) ==
    IF answerContent.isString THEN answerContent.val ELSE JsonStringify(answerContent)

\* await agent.invoke(...) settles; the processor renders the answer and
\* calls sendTextMessage, which runs up to its fetch or throws before it
InvokeReturn(j, a) ==
    /\ pc[j] = "invoke"
    /\ LET as == Append(answers[j], Answer("invoke", a)) IN
       IF a = "throw"
       THEN /\ Settle(j, wait, OuterCatch("Error"), calls[j], as, "none")
            /\ UNCHANGED <<agentOk, sendFailed>>
       ELSE LET answerContent == AnswerContent(a)
                ans == RenderAnswer(answerContent)
                cs == Append(calls[j], Call("sendTextMessage", phoneNumber[j], 0, ans))
                err == SendValidation(phoneNumber[j], ans, apiKey) IN
            /\ agentOk' = [agentOk EXCEPT ![j] = @ + 1]
            /\ IF err # "none"
               THEN /\ Settle(j, wait, SendCatch(err), cs, as, err)
                    /\ sendFailed' = [sendFailed EXCEPT ![j] = TRUE]
               ELSE /\ answer' = [answer EXCEPT ![j] = ans]
                    /\ answers' = [answers EXCEPT ![j] = as]
                    /\ calls' = [calls EXCEPT ![j] =
                           Append(cs, Call("fetch", CleanPhoneNumber(phoneNumber[j]), 0, Trim(ans)))]
                    /\ pc' = [pc EXCEPT ![j] = "fetch"]
                    /\ UNCHANGED <<jobs, wait, phoneNumber, user, messageText, runs, sendFailed>>
    /\ UNCHANGED apiKey
    /\ UNCHANGED <<qvars, svars, rvars>>

\* the fetch inside sendTextMessage settles (response read or error thrown);
\* sendTextMessage resolves or rejects and the processor returns
FetchReturn(j, f) ==
    /\ pc[j] = "fetch"
    /\ LET as == Append(answers[j], Answer("fetch", f))
           out == SendOutcome(f) IN
       /\ Settle(j, wait, IF out = "sent" THEN "completed" ELSE SendCatch(out), calls[j], as, out)
       /\ sendFailed' = [sendFailed EXCEPT ![j] = sendFailed[j] \/ out # "sent"]
    /\ UNCHANGED <<apiKey, agentOk>>
    /\ UNCHANGED <<qvars, svars, rvars>>

\* the operator retries so far, over all jobs
RECURSIVE RetriesUpTo(_)
RetriesUpTo(j) == IF j = 0 THEN 0 ELSE jobs[j].manualRetries + RetriesUpTo(j - 1)
ManualRetries == RetriesUpTo(MaxJobs)

\* an operator retries a failed job from the Bull Board at /admin/queues
OperatorRetry(j) ==
    /\ jobs[j].state = "failed"
    /\ ManualRetries < MaxManualRetries
    /\ jobs' = [jobs EXCEPT ![j].state = "waiting", ![j].manualRetries = @ + 1]
    /\ wait' = Append(wait, j)
    /\ UNCHANGED <<pc, locals, calls, answers, runs, apiKey, agentOk, sendFailed>>
    /\ UNCHANGED <<qvars, svars, rvars>>

Next ==
    \/ \E body \in WebhookJobData : PostWebhook(body)
    \/ \E j \in JobIds : ProcessorStart(j)
    \/ \E j \in JobIds, a \in UserAnswers : GetUserByPhoneReturn(j, a)
    \/ \E j \in JobIds, a \in CreateAnswers : CreateProteinAgentReturn(j, a)
    \/ \E j \in JobIds, a \in InvokeAnswers : InvokeReturn(j, a)
    \/ \E j \in JobIds, f \in FetchAnswers : FetchReturn(j, f)
    \/ \E j \in JobIds : OperatorRetry(j)


\* ------------------------------------- ingress, queue and worker processes
WorkerIds == 1..NumWorkers
\* bodies posted to the ingress (opaque to it)
PostedBodies == {Some([top |-> FullEnvelope, nested |-> None, deeper |-> None]),
                 Some([top |-> StatusEnvelope, nested |-> None, deeper |-> None])}

QueueInit ==
    /\ requests = << >>
    /\ queue = << >>
    /\ waiting = << >>
    /\ running = [w \in WorkerIds |-> 0]
    /\ handed = << >>
    /\ worker = [w \in WorkerIds |-> "running"]
    /\ retried = 0
    /\ broker = "down"

\* variant: the handler acknowledges whatever the enqueue did
RespondAlwaysOk(enqueue) == 200
\* try { await webhookQueue.add(...); res.status(200) } catch { res.status(500) }
Respond(enqueue) == IF enqueue = "added" THEN 200 ELSE 500

\* app.post('/webhooks'): the handler logs and calls webhookQueue.add
ReceivePost(body) ==
    /\ Len(requests) < MaxRequests
    /\ requests' = Append(requests, [body |-> body, enqueue |-> "pending", status |-> 0])
    /\ UNCHANGED <<queue, waiting, running, handed, worker, retried, broker>>
    /\ UNCHANGED <<vars, svars, rvars>>

\* webhookQueue.add resolves: the job { body: req.body } is in the wait list
\* and the handler answers
EnqueueResolve(r) ==
    /\ r \in 1..Len(requests)
    /\ broker = "up"
    /\ requests[r].enqueue = "pending"
    /\ queue' = Append(queue, [body |-> requests[r].body, request |-> r,
                               state |-> "waiting", attempts |-> << >>])
    /\ waiting' = Append(waiting, Len(queue) + 1)
    /\ requests' = [requests EXCEPT ![r].enqueue = "added", ![r].status = Respond("added")]
    /\ UNCHANGED <<running, handed, worker, retried, broker>>
    /\ UNCHANGED <<vars, svars, rvars>>

\* webhookQueue.add rejects (an error reply of the broker): the handler's catch answers
EnqueueReject(r) ==
    /\ r \in 1..Len(requests)
    /\ broker = "up"
    /\ requests[r].enqueue = "pending"
    /\ requests' = [requests EXCEPT ![r].enqueue = "rejected", ![r].status = Respond("rejected")]
    /\ UNCHANGED <<queue, waiting, running, handed, worker, retried, broker>>
    /\ UNCHANGED <<vars, svars, rvars>>

\* the connection is created with maxRetriesPerRequest: null: while the broker
\* is unreachable a command waits for the reconnection instead of failing
BrokerDown ==
    /\ broker = "up"
    /\ broker' = "down"
    /\ UNCHANGED <<requests, queue, waiting, running, handed, worker, retried>>
    /\ UNCHANGED <<vars, svars, rvars>>
BrokerUp ==
    /\ broker = "down"
    /\ broker' = "up"
    /\ UNCHANGED <<requests, queue, waiting, running, handed, worker, retried>>
    /\ UNCHANGED <<vars, svars, rvars>>

\* variant: the newest job is taken first
DequeueLifo(w) == [job |-> w[Len(w)], rest |-> SubSeq(w, 1, Len(w) - 1)]
\* variant: the job is read but left in the wait list
DequeuePeek(w) == [job |-> Head(w), rest |-> w]
\* the queue hands out the oldest waiting job (no lifo, priority or delay option)
Dequeue(w) == [job |-> Head(w), rest |-> Tail(w)]

\* a worker that is not closing takes the next job and runs its processor
WorkerTake(w) ==
    /\ broker = "up"
    /\ worker[w] = "running"
    /\ running[w] = 0
    /\ Len(waiting) > 0
    /\ LET d == Dequeue(waiting) IN
        /\ running' = [running EXCEPT ![w] = d.job]
        /\ waiting' = d.rest
        /\ queue' = [queue EXCEPT ![d.job].state = "active"]
        /\ handed' = Append(handed, d.job)
    /\ UNCHANGED <<requests, worker, retried, broker>>
    /\ UNCHANGED <<vars, svars, rvars>>

\* the processor of worker w returns ("completed") or throws ("failed")
WorkerFinish(w, result) ==
    /\ running[w] # 0
    /\ LET j == running[w]
           retry == result = "failed" /\ Len(queue[j].attempts) + 1 < Attempts IN
        /\ queue' = [queue EXCEPT ![j].state = IF retry THEN "waiting" ELSE result,
                                  ![j].attempts = Append(@, result)]
        /\ waiting' = IF retry THEN Append(waiting, j) ELSE waiting
    /\ running' = [running EXCEPT ![w] = 0]
    /\ UNCHANGED <<requests, handed, worker, retried, broker>>
    /\ UNCHANGED <<vars, svars, rvars>>

\* an operator retries a failed job from the Bull Board at /admin/queues
RetryFailed(j) ==
    /\ j \in 1..Len(queue)
    /\ queue[j].state = "failed"
    /\ retried < MaxManualRetries
    /\ retried' = retried + 1
    /\ queue' = [queue EXCEPT ![j].state = "waiting"]
    /\ waiting' = Append(waiting, j)
    /\ UNCHANGED <<requests, running, handed, worker, broker>>
    /\ UNCHANGED <<vars, svars, rvars>>

\* SIGTERM or SIGINT: shutdown(signal) calls webhookWorker.close(), which
\* stops taking jobs; a later signal calls it again and gets the same promise
Signal(w) ==
    /\ worker[w] \in {"running", "closing"}
    /\ worker' = [worker EXCEPT ![w] = IF worker[w] = "running" THEN "closing" ELSE "closing again"]
    /\ UNCHANGED <<requests, queue, waiting, running, handed, retried, broker>>
    /\ UNCHANGED <<vars, svars, rvars>>

\* variant: process.exit is reached without awaiting close()
CloseResolvedAtOnce(job) == TRUE
\* await webhookWorker.close() resolves once no job is in flight
CloseResolved(job) == job = 0

\* process.exit(0) after the awaited close()
Exit(w) ==
    /\ worker[w] \in {"closing", "closing again"}
    /\ CloseResolved(running[w])
    /\ worker' = [worker EXCEPT ![w] = "exited"]
    /\ UNCHANGED <<requests, queue, waiting, running, handed, retried, broker>>
    /\ UNCHANGED <<vars, svars, rvars>>

QueueNext ==
    \/ \E body \in PostedBodies : ReceivePost(body)
    \/ \E r \in 1..MaxRequests : EnqueueResolve(r)
    \/ \E r \in 1..MaxRequests : EnqueueReject(r)
    \/ BrokerDown
    \/ BrokerUp
    \/ \E w \in WorkerIds : WorkerTake(w)
    \/ \E w \in WorkerIds, result \in {"completed", "failed"} : WorkerFinish(w, result)
    \/ \E j \in 1..MaxRequests : RetryFailed(j)

\* one worker process and the signals it gets
ShutdownNext ==
    \/ \E body \in PostedBodies : ReceivePost(body)
    \/ \E r \in 1..MaxRequests : EnqueueResolve(r)
    \/ BrokerUp
    \/ WorkerTake(1)
    \/ \E result \in {"completed", "failed"} : WorkerFinish(1, result)
    \/ \E j \in 1..MaxRequests : RetryFailed(j)
    \/ Signal(1)
    \/ Exit(1)

\* ------------------------------------------------ sendTextMessage in steps
PhoneNumbers == {<< >>, <<" ">>, <<"5", "5">>, <<" ", "5", "5">>, <<"5", "@", "s">>,
                 <<"@", "5">>, <<"5", "s">>}
Texts == {<< >>, <<" ">>, <<"h", "i">>, <<" ", "h", "i", " ">>}
\* `${this.baseUrl}/message/sendText/${this.instanceName}`
Url == "baseUrl/message/sendText/instanceName"

\* what fetch or the reading of the body can reject with; a message is the
\* sequence of its parts, and includes(x) asks for a part
FetchErrors == {[name |-> "TypeError", message |-> <<"fetch failed">>],
                [name |-> "Error", message |-> <<"connect", "ECONNREFUSED">>],
                [name |-> "Error", message |-> <<"getaddrinfo", "ENOTFOUND">>],
                [name |-> "Error", message |-> <<"getaddrinfo", "ECONNREFUSED">>],
                [name |-> "TypeError", message |-> <<"terminated">>]}
AbortError == [name |-> "AbortError", message |-> <<"This operation was aborted">>]
SyntaxError == [name |-> "SyntaxError", message |-> <<"Unexpected token">>]
MessageIncludes(message, part) == \E i \in 1..Len(message) : message[i] = part

TimeoutMessage == <<"Request timeout after 30 seconds to", Url>>
ConnectionMessage == <<"Connection failed to", Url>>
DnsMessage == <<"DNS resolution failed for EvolutionAPI">>
RequestFailedMessage(status) == <<"EvolutionAPI request failed:", status>>

\* variant: the abort of the timer is not told apart
ClassifyErrorNoAbort(error) ==
    IF MessageIncludes(error.message, "fetch failed") \/ MessageIncludes(error.message, "ECONNREFUSED")
    THEN [errorMessage |-> ConnectionMessage, statusCode |-> 503]
    ELSE IF MessageIncludes(error.message, "ENOTFOUND") \/ MessageIncludes(error.message, "getaddrinfo")
    THEN [errorMessage |-> DnsMessage, statusCode |-> 503]
    ELSE [errorMessage |-> error.message, statusCode |-> 0]
\* variant: the name-resolution test comes before the connection test
ClassifyErrorDnsFirst(error) ==
    IF error.name = "AbortError"
    THEN [errorMessage |-> TimeoutMessage, statusCode |-> 504]
    ELSE IF MessageIncludes(error.message, "ENOTFOUND") \/ MessageIncludes(error.message, "getaddrinfo")
    THEN [errorMessage |-> DnsMessage, statusCode |-> 503]
    ELSE IF MessageIncludes(error.message, "fetch failed") \/ MessageIncludes(error.message, "ECONNREFUSED")
    THEN [errorMessage |-> ConnectionMessage, statusCode |-> 503]
    ELSE [errorMessage |-> error.message, statusCode |-> 0]
\* the catch's if-chain: errorMessage and statusCode (0: undefined)
ClassifyError(error) ==
    IF error.name = "AbortError"
    THEN [errorMessage |-> TimeoutMessage, statusCode |-> 504]
    ELSE IF MessageIncludes(error.message, "fetch failed") \/ MessageIncludes(error.message, "ECONNREFUSED")
    THEN [errorMessage |-> ConnectionMessage, statusCode |-> 503]
    ELSE IF MessageIncludes(error.message, "ENOTFOUND") \/ MessageIncludes(error.message, "getaddrinfo")
    THEN [errorMessage |-> DnsMessage, statusCode |-> 503]
    ELSE [errorMessage |-> error.message, statusCode |-> 0]

\* new ApiError(message, 'EvolutionAPI', statusCode, response, context)
ApiError(message, statusCode, resp, context) ==
    [name |-> "ApiError", message |-> message,
     statusCode |-> IF statusCode # 0 THEN statusCode ELSE 502,
     response |-> resp, context |-> context]

\* the catch of sendTextMessage for an Error that is not one of its own
CatchError(error, phone) ==
    LET c == ClassifyError(error) IN
    ApiError(c.errorMessage, c.statusCode, None,
             [phoneNumber |-> CleanPhoneNumber(phone), url |-> Url,
              originalError |-> Some(error.message)])

SendInit ==
    /\ sendPc = "idle"
    /\ sendArgs = None
    /\ timeoutId = "unset"
    /\ httpRequests = << >>
    /\ response = None
    /\ thrown = None
    /\ jobOutcome = "active"

\* sendTextMessage rejects with error e; the processor's catch logs it and returns
Throw(e) ==
    /\ sendPc' = "thrown"
    /\ thrown' = Some(e)
    /\ jobOutcome' = SendCatch(e.name)

\* the processor calls sendTextMessage: the checks, then the timer and fetch
SendTextMessage(phone, text, key) ==
    /\ sendPc = "idle"
    /\ sendArgs' = Some([phoneNumber |-> phone, text |-> text, apiKey |-> key])
    /\ LET err == SendValidation(phone, text, key) IN
       IF err # "none"
       THEN /\ Throw([name |-> err])
            /\ UNCHANGED <<timeoutId, httpRequests>>
       ELSE /\ timeoutId' = "armed"
            /\ httpRequests' = Append(httpRequests,
                   [url |-> Url, number |-> CleanPhoneNumber(phone), text |-> Trim(text)])
            /\ sendPc' = "fetching"
            /\ UNCHANGED <<thrown, jobOutcome>>
    /\ UNCHANGED response
    /\ UNCHANGED <<vars, qvars, rvars>>

\* fetch resolves with the response's status; clearTimeout(timeoutId)
FetchResolve(status, body) ==
    /\ sendPc = "fetching"
    /\ response' = Some([status |-> status, body |-> body])
    /\ timeoutId' = "cleared"
    /\ sendPc' = "reading"
    /\ UNCHANGED <<sendArgs, httpRequests, thrown, jobOutcome>>
    /\ UNCHANGED <<vars, qvars, rvars>>

\* fetch rejects; the catch wraps the error (the timer is left armed)
FetchReject(error) ==
    /\ sendPc = "fetching"
    /\ Throw(CatchError(error, Val(sendArgs).phoneNumber))
    /\ UNCHANGED <<sendArgs, timeoutId, httpRequests, response>>
    /\ UNCHANGED <<vars, qvars, rvars>>

\* the 30 s timer fires: controller.abort() rejects a pending fetch with AbortError
Timeout ==
    /\ timeoutId = "armed"
    /\ timeoutId' = "fired"
    /\ IF sendPc = "fetching"
       THEN Throw(CatchError(AbortError, Val(sendArgs).phoneNumber))
       ELSE UNCHANGED <<sendPc, thrown, jobOutcome>>
    /\ UNCHANGED <<sendArgs, httpRequests, response>>
    /\ UNCHANGED <<vars, qvars, rvars>>

\* response.text() or response.json() settles: read is TRUE when the body
\* arrived whole, FALSE when the stream broke
ReadBody(read) ==
    /\ sendPc = "reading"
    /\ LET r == Val(response)
           phone == Val(sendArgs).phoneNumber
           ok == r.status \in 200..299 IN
       IF ~read
       THEN Throw(CatchError([name |-> "TypeError", message |-> <<"terminated">>], phone))
       ELSE IF ~ok
       THEN Throw(ApiError(RequestFailedMessage(r.status), r.status, Some(r.body),
                           [phoneNumber |-> CleanPhoneNumber(phone), url |-> Url,
                            originalError |-> None]))
       ELSE IF r.body # "json"
       THEN Throw(CatchError(SyntaxError, phone))
       ELSE /\ sendPc' = "returned"
            /\ jobOutcome' = "completed"
            /\ UNCHANGED thrown
    /\ UNCHANGED <<sendArgs, timeoutId, httpRequests, response>>
    /\ UNCHANGED <<vars, qvars, rvars>>

SendNext ==
    \/ \E phone \in PhoneNumbers, text \in Texts, key \in BOOLEAN : SendTextMessage(phone, text, key)
    \/ \E status \in {200, 404, 500}, body \in {"json", "text"} : FetchResolve(status, body)
    \/ \E error \in FetchErrors : FetchReject(error)
    \/ Timeout
    \/ \E read \in BOOLEAN : ReadBody(read)

\* ------------------------------------------- protein entries and the tools
MaxOf(a, b) == IF a > b THEN a ELSE b
Users == {1, 2}
Callers == {"a", "b"}
\* instants, counted in half days from a UTC midnight
Times == {2, 3}
TzOffsets == {-1, 0}
Targets == {None, Some(30)}
Grams == {20}
Refeicao == <<"Refeição">>
Descriptions == {None, Some(<<"ovo">>)}
\* the entryId argument of delete_protein_entry: missing, 0, or an id
EntryIds == {None} \cup {Some(i) : i \in 0..MaxEntries}

\* date.toISOString().split('T')[0]: the UTC day of an instant
GetDateKey(date) == date \div 2
\* new Date('YYYY-MM-DD'): the UTC midnight of a date key
DateOfKey(key) == 2 * key
\* variant: the bounds of the UTC day
GetDayBoundsUtc(date, offset) ==
    [start |-> 2 * (date \div 2), end |-> 2 * (date \div 2) + 1]
\* setHours(0, 0, 0, 0) and setHours(23, 59, 59, 999): the bounds, as
\* instants, of the day the instant falls in on the server's clock
GetDayBounds(date, offset) ==
    LET day == (date + offset) \div 2 IN
    [start |-> 2 * day - offset, end |-> 2 * day - offset + 1]

RECURSIVE SumGrams(_)
SumGrams(rows) ==
    IF rows = {} THEN 0
    ELSE LET e == CHOOSE x \in rows : TRUE IN e.proteinGrams + SumGrams(rows \ {e})

\* getDailyConsumption(userId, date) over the rows given
GetDailyConsumption(rows, userId, date, offset) ==
    LET b == GetDayBounds(date, offset)
        found == {e \in rows : e.userId = userId /\ e.timestamp >= b.start /\ e.timestamp <= b.end} IN
    [date |-> GetDateKey(date), entries |-> found, total |-> SumGrams(found)]

\* variant: the row is looked up by its id alone
FindFirstAnyUser(rows, userId, entryId) == {e \in rows : e.id = entryId}
\* prisma.protein_entries.findFirst({ where: { id: entryId, userId } })
FindFirst(rows, userId, entryId) == {e \in rows : e.id = entryId /\ e.userId = userId}

NotFoundMessage(entryId) == <<"Protein entry", "with identifier", ToString(entryId), "not found">>
RequiredMessage == <<"ID da entrada é", "obrigatório">>
GenericMessage == <<"Erro ao deletar entrada. Por favor, tente novamente.">>

\* variant: a delete of a missing row is wrapped like any database error
DeleteCatchWrapAll(code) == "DatabaseError"
\* deleteEntry's catch: P2025 (record to delete does not exist) is not-found
DeleteCatch(code) == IF code = "P2025" THEN "NotFoundError" ELSE "DatabaseError"

\* the tool's catch: the error text of the response
ToolCatch(err, entryId) ==
    CASE err = "ValidationError" -> RequiredMessage
      [] err = "NotFoundError" -> NotFoundMessage(entryId)
      [] OTHER -> GenericMessage

\* variant: only a missing id is refused
UnusableMissingOnly(entryId) == entryId = None
\* !entryId
Unusable(entryId) == entryId = None \/ entryId = Some(0)

NoResponse == [success |-> FALSE, error |-> << >>, entry |-> None, date |-> None,
               total |-> None, remaining |-> None]
Failure(message) == [NoResponse EXCEPT !.error = message]
IdleCall == [pc |-> "idle", tool |-> "none", userId |-> 0, args |-> None, entryId |-> None, entry |-> None,
             ops |-> << >>, repo |-> "none", response |-> NoResponse]

RepoInit ==
    /\ tz \in TzOffsets
    /\ targets \in {[u \in Users |-> target] : target \in Targets}
    /\ entries = {}
    /\ nextId = 1
    /\ call = [c \in Callers |-> IdleCall]
    /\ removed = {}

Settled(c) == call[c].pc \in {"idle", "done"}

\* record_protein_intake: recordProtein, getDailyConsumption, getUser, and
\* the response
RecordProteinIntake(c, userId, proteinGrams, description, timestamp, now) ==
    /\ Settled(c)
    /\ nextId <= MaxEntries
    /\ LET date == IF timestamp # None THEN Val(timestamp) ELSE now
           entry == [id |-> nextId, userId |-> userId, proteinGrams |-> proteinGrams,
                     description |-> IF Truthy(description) THEN Val(description) ELSE Refeicao,
                     timestamp |-> date]
           daily == GetDailyConsumption(entries \cup {entry}, userId, date, tz)
           target == targets[userId] IN
       /\ entries' = entries \cup {entry}
       /\ nextId' = nextId + 1
       /\ call' = [call EXCEPT ![c] =
              [IdleCall EXCEPT !.pc = "done", !.tool = "record", !.userId = userId,
                               !.args = Some([proteinGrams |-> proteinGrams,
                                              description |-> description,
                                              timestamp |-> timestamp,
                                              now |-> IF timestamp = None THEN Some(now) ELSE None]),
                               !.entry = Some(entry),
                               !.ops = <<"create", "findMany", "getUser">>,
                               !.response =
                                   [success |-> TRUE, error |-> << >>, entry |-> Some(entry),
                                    date |-> Some(daily.date), total |-> Some(daily.total),
                                    remaining |-> IF target # None
                                                  THEN Some(MaxOf(0, Val(target) - daily.total))
                                                  ELSE None]]]
    /\ UNCHANGED <<tz, targets, removed>>
    /\ UNCHANGED <<vars, qvars, svars>>

\* delete_protein_entry is called: the check of the id, then deleteEntry's
\* findFirst is sent
DeleteProteinEntry(c, userId, entryId) ==
    /\ Settled(c)
    /\ call' = [call EXCEPT ![c] =
           IF Unusable(entryId)
           THEN [IdleCall EXCEPT !.pc = "done", !.tool = "delete", !.userId = userId,
                                 !.entryId = entryId,
                                 !.response = Failure(ToolCatch("ValidationError", 0))]
           ELSE [IdleCall EXCEPT !.pc = "findFirst", !.tool = "delete", !.userId = userId,
                                 !.entryId = entryId,
                                 !.ops = <<"findFirst">>]]
    /\ UNCHANGED <<tz, targets, entries, nextId, removed>>
    /\ UNCHANGED <<vars, qvars, svars>>

\* findFirst answers: without a row deleteEntry throws NotFoundError, which
\* the tool turns into its response; with one, the delete is sent
FindFirstReturn(c) ==
    /\ call[c].pc = "findFirst"
    /\ LET id == Val(call[c].entryId)
           found == FindFirst(entries, call[c].userId, id) IN
       call' = [call EXCEPT ![c] =
           IF found = {}
           THEN [@ EXCEPT !.pc = "done", !.repo = "NotFoundError",
                          !.response = Failure(ToolCatch("NotFoundError", id))]
           ELSE [@ EXCEPT !.pc = "delete", !.entry = Some(CHOOSE e \in found : TRUE),
                          !.ops = Append(@, "delete")]]
    /\ UNCHANGED <<tz, targets, entries, nextId, removed>>
    /\ UNCHANGED <<vars, qvars, svars>>

\* prisma.protein_entries.delete({ where: { id: entryId } }) answers: the row
\* is gone, or P2025 when no row has that id any more
DeleteReturn(c) ==
    /\ call[c].pc = "delete"
    /\ LET id == Val(call[c].entryId)
           rows == {e \in entries : e.id = id} IN
       IF rows = {}
       THEN /\ call' = [call EXCEPT ![c] =
                   [@ EXCEPT !.pc = "done", !.repo = DeleteCatch("P2025"),
                             !.response = Failure(ToolCatch(DeleteCatch("P2025"), id))]]
            /\ UNCHANGED <<entries, removed>>
       ELSE /\ entries' = entries \ rows
            /\ removed' = removed \cup {[entry |-> e, by |-> call[c].userId] : e \in rows}
            /\ call' = [call EXCEPT ![c] = [@ EXCEPT !.pc = "totals", !.ops = Append(@, "findMany")]]
    /\ UNCHANGED <<tz, targets, nextId>>
    /\ UNCHANGED <<vars, qvars, svars>>

\* deleteEntry reads the day of the row's timestamp and returns; the tool
\* reads the day of the returned date key, the user, and responds
TotalsReturn(c) ==
    /\ call[c].pc = "totals"
    /\ LET entry == Val(call[c].entry)
           dateKey == GetDateKey(entry.timestamp)
           newDailyTotal == GetDailyConsumption(entries, call[c].userId, entry.timestamp, tz).total
           daily == GetDailyConsumption(entries, call[c].userId, DateOfKey(dateKey), tz)
           target == targets[call[c].userId] IN
       call' = [call EXCEPT ![c] =
           [@ EXCEPT !.pc = "done", !.repo = "returned",
                     !.ops = @ \o <<"findMany", "getUser">>,
                     !.response =
                         [success |-> TRUE, error |-> << >>, entry |-> Some(entry),
                          date |-> Some(dateKey), total |-> Some(newDailyTotal),
                          remaining |-> IF target # None
                                        THEN Some(MaxOf(0, Val(target) - daily.total))
                                        ELSE None]]]
    /\ UNCHANGED <<tz, targets, entries, nextId, removed>>
    /\ UNCHANGED <<vars, qvars, svars>>

\* the tools of one agent, one call after the other
RepoNext ==
    \/ \E userId \in Users, proteinGrams \in Grams, description \in Descriptions,
          timestamp \in {None} \cup {Some(t) : t \in Times}, now \in Times :
           RecordProteinIntake("a", userId, proteinGrams, description, timestamp, now)
    \/ \E userId \in Users, entryId \in EntryIds : DeleteProteinEntry("a", userId, entryId)
    \/ FindFirstReturn("a")
    \/ DeleteReturn("a")
    \/ TotalsReturn("a")

\* tool calls of two executions, interleaved at their awaits
RaceNext ==
    \/ \E c \in Callers, userId \in Users, proteinGrams \in Grams, now \in Times :
           RecordProteinIntake(c, userId, proteinGrams, None, None, now)
    \/ \E c \in Callers, userId \in Users, entryId \in EntryIds : DeleteProteinEntry(c, userId, entryId)
    \/ \E c \in Callers : FindFirstReturn(c)
    \/ \E c \in Callers : DeleteReturn(c)
    \/ \E c \in Callers : TotalsReturn(c)

\* ---------------------------------------------------------- specifications
\* the processor at rest, for the specifications that look elsewhere
ProcessorIdle == Init /\ apiKey
\* the states after construction, specification by specification
\* no tool call yet, in a server on UTC whose users have no target
RepoIdle == RepoInit /\ tz = 0 /\ targets = [u \in Users |-> None]
SpecInit == Init /\ QueueInit /\ SendInit /\ RepoIdle
QuietInit == ProcessorIdle /\ QueueInit /\ SendInit /\ RepoIdle
RepoSpecInit == ProcessorIdle /\ QueueInit /\ SendInit /\ RepoInit
\* the webhook worker's processor, job by job
Spec == SpecInit /\ [][Next]_allvars
\* the ingress, the queue and the worker processes
QueueSpec == QuietInit /\ [][QueueNext]_allvars
\* a worker process from its start to its exit
ShutdownSpec == QuietInit /\ [][ShutdownNext]_allvars
\* the same, where a command sent while the broker is up is answered
QueueLive == QueueSpec /\ SF_allvars(\E r \in 1..MaxRequests : EnqueueResolve(r) \/ EnqueueReject(r))
\* one sendTextMessage call of the processor
SendSpec == QuietInit /\ [][SendNext]_allvars
\* the tools of one agent over the protein entries
RepoSpec == RepoSpecInit /\ [][RepoNext]_allvars
\* tool calls of two executions over the protein entries
RaceSpec == QuietInit /\ [][RaceNext]_allvars
\* the same, where an armed timer fires
SendLive == SendSpec /\ WF_allvars(Timeout)

\* ------------------------------------------------------------------ claims
Called(r, op) == \E i \in 1..Len(r.calls) : r.calls[i].op = op
Answered(r, op, a) == \E i \in 1..Len(r.answers) : r.answers[i] = Answer(op, a)
DeliveryErrors == {"ValidationError", "ConfigurationError", "ApiError"}
\* the envelope a finished execution inspected
Inspected(r) == WebhookData(Val(r.data))

\* C1: whenever an execution's sendTextMessage call failed (validation,
\* configuration or transport error), that execution returned normally: it
\* is recorded completed, it is the job's last execution and the job is in
\* state completed (not failed, not waiting for a retry).
C1_DeliveryFailureCompletesJob ==
    \A j \in JobIds : \A i \in 1..Len(runs[j]) :
        runs[j][i].delivery \in DeliveryErrors =>
            /\ runs[j][i].result = "completed"
            /\ i = Len(runs[j])
            /\ jobs[j].state = "completed"
C1_Witness ==
    \E r \in AllRuns : /\ r.delivery = "ApiError" /\ Answered(r, "fetch", "AbortError")
                        /\ Answered(r, "invoke", "text") /\ r.result = "completed"

\* C2: an execution in which createProteinAgent or agent.invoke threw is
\* reported failed and made no sendTextMessage call (and no fetch).
C2_AgentThrowFailsJobNoDelivery ==
    \A r \in AllRuns :
        (Answered(r, "createProteinAgent", "throw") \/ Answered(r, "invoke", "throw")) =>
            /\ r.result = "failed"
            /\ ~Called(r, "sendTextMessage")
            /\ ~Called(r, "fetch")
            /\ r.delivery = "none"
C2_Witness ==
    \E j \in JobIds : /\ Len(runs[j]) = 2
                       /\ Answered(runs[j][1], "invoke", "throw")
                       /\ Answered(runs[j][2], "createProteinAgent", "throw")

\* C3: an execution whose getUserByPhone raised UserNotFoundError completed
\* successfully, the queue did not retry the job, and the execution called
\* neither createProteinAgent, agent.invoke nor sendTextMessage.
C3_UserNotFoundCompletesSilently ==
    \A j \in JobIds : \A i \in 1..Len(runs[j]) :
        Answered(runs[j][i], "getUserByPhone", "UserNotFoundError") =>
            /\ runs[j][i].result = "completed"
            /\ i = Len(runs[j])
            /\ jobs[j].state = "completed"
            /\ ~Called(runs[j][i], "createProteinAgent")
            /\ ~Called(runs[j][i], "invoke")
            /\ ~Called(runs[j][i], "sendTextMessage")
C3_Witness == \E r \in AllRuns : Answered(r, "getUserByPhone", "UserNotFoundError")

\* C4: an execution whose getUserByPhone raised an error other than
\* UserNotFoundError is reported failed and called neither
\* createProteinAgent, agent.invoke nor sendTextMessage.
C4_OtherResolutionErrorFailsJob ==
    \A r \in AllRuns :
        Answered(r, "getUserByPhone", "DatabaseError") =>
            /\ r.result = "failed"
            /\ ~Called(r, "createProteinAgent")
            /\ ~Called(r, "invoke")
            /\ ~Called(r, "sendTextMessage")
C4_Witness == \E r \in AllRuns : Answered(r, "getUserByPhone", "DatabaseError")

\* C5: an execution whose inspected (unwrapped) envelope has an event kind
\* other than 'messages.upsert' completed successfully without any call to
\* getUserByPhone, the agent or sendTextMessage.
C5_OtherEventKindIsNoOp ==
    \A r \in AllRuns :
        (IsSome(r.data) /\ Inspected(r).event # Some(MessagesUpsert)) =>
            /\ r.result = "completed"
            /\ r.calls = << >>
C5_Witness ==
    \E r \in AllRuns : /\ IsSome(r.data)
                        /\ Inspected(r).event = Some(StatusUpdate)
                        /\ Truthy(Inspected(r).remoteJid)
                        /\ Truthy(Inspected(r).conversation)
                        /\ r.result = "completed"

\* C6 (as claimed): an execution for a 'messages.upsert' event without
\* remoteJid or without conversation completed successfully without any
\* downstream call.
C6_MissingFieldIsNoOp ==
    \A r \in AllRuns :
        (/\ IsSome(r.data)
         /\ Inspected(r).event = Some(MessagesUpsert)
         /\ (Inspected(r).remoteJid = None \/ Inspected(r).conversation = None)) =>
            /\ r.result = "completed"
            /\ r.calls = << >>

\* p is the part of s before the first '@' of s
BeforeFirstAt(p, s) ==
    /\ Len(p) < Len(s)
    /\ \A i \in 1..Len(p) : p[i] = s[i] /\ p[i] # "@"
    /\ s[Len(p) + 1] = "@"
HasAt(s) == \E i \in 1..Len(s) : s[i] = "@"

\* C7: in every execution, the identifier passed to getUserByPhone and the
\* identifier passed to sendTextMessage are the part of the remoteJid before
\* its first '@' when it has one, and the remoteJid itself otherwise.
C7_CanonicalIdPassedOn ==
    \A r \in AllRuns : \A i \in 1..Len(r.calls) :
        r.calls[i].op \in {"getUserByPhone", "sendTextMessage"} =>
            LET remoteJid == Val(Inspected(r).remoteJid) IN
            IF HasAt(remoteJid)
            THEN BeforeFirstAt(r.calls[i].phone, remoteJid)
            ELSE r.calls[i].phone = remoteJid
C7_Witness ==
    \E r \in AllRuns : /\ Called(r, "getUserByPhone") /\ Called(r, "sendTextMessage")
                        /\ Inspected(r).remoteJid = Some(<<"5", "@", "s", "@", "5">>)

\* C8 (as claimed): a job that ended in the failed state was retried by the
\* queue at least once before.
C8_FailedJobWasRetried ==
    \A j \in JobIds : jobs[j].state = "failed" => jobs[j].autoRetries >= 1

\* successful agent invocations over all executions of job j
InvokedOk(j) == {i \in 1..Len(runs[j]) :
                    \E k \in 1..Len(runs[j][i].answers) :
                        /\ runs[j][i].answers[k].op = "invoke"
                        /\ runs[j][i].answers[k].ans # "throw"}

\* C9: for a job with a failed delivery, the agent returned exactly once
\* over all executions of the job (the record is neither lost nor
\* duplicated): the job is not waiting, active or failed again.
C9_NoReinvocationAfterDeliveryFailure ==
    \A j \in JobIds :
        sendFailed[j] =>
            /\ agentOk[j] = 1
            /\ Cardinality(InvokedOk(j)) = 1
            /\ jobs[j].state = "completed"
C9_Witness ==
    \E j \in JobIds : sendFailed[j] /\ Len(runs[j]) = 2 /\ runs[j][2].delivery = "ApiError"

\* success no-op / success with reply / failed
Classification(r) ==
    IF r.result = "failed" THEN "failed"
    ELSE IF Called(r, "sendTextMessage") THEN "success with reply" ELSE "success no-op"
\* the collaborators answered the same way as far as both were asked
SameAnswers(a, b) ==
    \A i \in 1..(IF Len(a) < Len(b) THEN Len(a) ELSE Len(b)) : a[i] = b[i]

OpsOf(cs) == [i \in 1..Len(cs) |-> cs[i].op]
PipelineOps == <<"getUserByPhone", "createProteinAgent", "invoke", "sendTextMessage", "fetch">>
IsPrefix(a, b) == Len(a) <= Len(b) /\ \A i \in 1..Len(a) : a[i] = b[i]
CanonicalId(p, remoteJid) == IF HasAt(remoteJid) THEN BeforeFirstAt(p, remoteJid) ELSE p = remoteJid

\* C19: the calls of every execution, running or finished, follow the order
\* getUserByPhone, createProteinAgent, agent.invoke, sendTextMessage (then
\* the request), each at most once and none before the previous one was
\* answered; an execution in which the user was found and the agent returned
\* made each call exactly once, with the canonical id, (user id, message
\* text) and (canonical id, reply text), and completed.
C19_PipelineOrder ==
    /\ \A j \in JobIds :
        /\ IsPrefix(OpsOf(calls[j]), PipelineOps)
        /\ Len(calls[j]) <= Len(answers[j]) + 2
        /\ Len(calls[j]) >= 3 => answers[j][1] = Answer("getUserByPhone", "found")
        /\ Len(calls[j]) >= 4 => answers[j][3].op = "invoke" /\ answers[j][3].ans # "throw"
    /\ \A r \in AllRuns :
        /\ IsPrefix(OpsOf(r.calls), PipelineOps)
        /\ (\E k \in 1..Len(r.answers) : r.answers[k].op = "invoke" /\ r.answers[k].ans # "throw") =>
            LET remoteJid == Val(Inspected(r).remoteJid)
                content == AnswerContent(r.answers[3].ans) IN
            /\ r.result = "completed"
            /\ Len(r.calls) \in {4, 5}
            /\ r.calls[1].op = "getUserByPhone" /\ CanonicalId(r.calls[1].phone, remoteJid)
            /\ r.calls[2] = Call("createProteinAgent", << >>, UserId, << >>)
            /\ r.calls[3] = Call("invoke", << >>, UserId, Val(Inspected(r).conversation))
            /\ r.calls[4].op = "sendTextMessage" /\ r.calls[4].phone = r.calls[1].phone
            /\ content.isString => r.calls[4].text = content.val
            /\ ~content.isString => Len(r.calls[4].text) > 0
C19_Witness ==
    \E r \in AllRuns : /\ r.data # None
                        /\ Inspected(r).remoteJid = Some(<<"5", "@", "s", "@", "5">>)
                        /\ Answered(r, "invoke", "text")
                        /\ Answered(r, "fetch", "200")
                        /\ r.result = "completed" /\ r.delivery = "sent"


\* ------------------------------------------- claims on the queue and pool
JobsOf(r) == {j \in 1..Len(queue) : queue[j].request = r}
Handings(j) == Cardinality({i \in 1..Len(handed) : handed[i] = j})
InWaiting(j) == \E i \in 1..Len(waiting) : waiting[i] = j

C12_AcknowledgedHasOneJob ==
    \A r \in 1..Len(requests) :
        /\ Cardinality(JobsOf(r)) <= 1
        /\ requests[r].status = 200 =>
               /\ Cardinality(JobsOf(r)) = 1
               /\ \A j \in JobsOf(r) : queue[j].body = requests[r].body
C12_Witness ==
    /\ Len(requests) >= 2 /\ Len(queue) >= 2
    /\ requests[1].body = requests[2].body
    /\ requests[1].status = 200 /\ requests[2].status = 200
    /\ queue[1].body = requests[1].body /\ queue[2].body = requests[1].body
    /\ queue[1].request # queue[2].request

\* C13: every request to POST /webhooks is answered in the end (with 200
\* after the enqueue, with a 5xx after its failure).
C13_EveryRequestAnswered ==
    \A r \in 1..MaxRequests :
        (Len(requests) >= r) ~> (Len(requests) >= r /\ requests[r].status # 0)

\* C16: a worker process that got a signal takes no job, a job in flight
\* leaves the worker only with its outcome recorded, and the process has
\* exited only with no job in flight.
C16_DrainBeforeExit ==
    /\ [](\A w \in WorkerIds : worker[w] = "exited" => running[w] = 0)
    /\ [](\A j \in 1..Len(queue) : queue[j].state = "active" => \E w \in WorkerIds :
              running[w] = j /\ worker[w] # "exited")
    /\ [][\A w \in WorkerIds :
              /\ worker[w] # "running" => running'[w] \in {running[w], 0}
              /\ (running[w] # 0 /\ running'[w] # running[w]) =>
                     /\ Len(queue'[running[w]].attempts) = Len(queue[running[w]].attempts) + 1
                     /\ queue'[running[w]].state \in {"completed", "failed", "waiting"}]_allvars
C16_Witness ==
    /\ worker[1] = "closing again"
    /\ running[1] # 0
    /\ Len(waiting) > 0

\* C20: a job is handed to a worker only after every job enqueued before it
\* has been handed out.
C20_FifoHandOut ==
    \A i \in 1..Len(handed) : \A j \in 1..(handed[i] - 1) : \E k \in 1..(i - 1) : handed[k] = j
C20_Witness ==
    /\ Len(handed) >= 2 /\ handed[1] = 1 /\ handed[2] = 2
    /\ queue[1].state = "active"
    /\ queue[2].state = "completed"

\* ------------------------------------------------ claims on the delivery
SendFailure == IF thrown # None /\ Val(thrown).name = "ApiError" THEN thrown ELSE None
BadPhoneNumber(phone) ==
    Len(phone) = 0 \/ Len(Trim(phone)) = 0 \/ ~IsNumeric(CleanPhoneNumber(phone))
BadText(text) == Len(text) = 0 \/ Len(Trim(text)) = 0

\* C14: a sendTextMessage call that is waiting for fetch or for the body of
\* the response returns or throws in the end.
C14_DeliveryReturns ==
    (sendPc \in {"fetching", "reading"}) ~> (sendPc \in {"returned", "thrown"})

\* C15: a fetch aborted by the 30 s timer is thrown as the ApiError of the
\* timeout (its message, status 504), and the surrounding job is completed.
C15_TimeoutCompletesJob ==
    (SendFailure # None /\ Val(SendFailure).context.originalError = Some(AbortError.message)) =>
        /\ timeoutId = "fired"
        /\ Val(SendFailure).message = TimeoutMessage
        /\ Val(SendFailure).statusCode = 504
        /\ sendPc = "thrown"
        /\ jobOutcome = "completed"
C15_Witness ==
    /\ SendFailure # None
    /\ Val(SendFailure).context.originalError = Some(AbortError.message)
    /\ timeoutId = "fired"
    /\ jobOutcome = "completed"

\* C17 (as stated): an empty id, an id that is not all digits, a blank text
\* and a missing key are each rejected before any request.
C17_NonDigitIdRejected ==
    sendArgs # None =>
        LET a == Val(sendArgs) IN
        (Len(a.phoneNumber) = 0 \/ ~IsNumeric(a.phoneNumber) \/ BadText(a.text) \/ ~a.apiKey) =>
            /\ thrown # None
            /\ Val(thrown).name \in {"ValidationError", "ConfigurationError"}
            /\ httpRequests = << >>
\* C17: an id that is empty, blank or whose part before the first '@' (its
\* trimmed form when it has no '@') is not all digits, and a blank text, are
\* rejected with ValidationError, then a missing key with ConfigurationError,
\* each before any request; every other call sends one request to an id of
\* digits only.
C17_RejectsBeforeRequest ==
    sendArgs # None =>
        LET a == Val(sendArgs)
            invalid == BadPhoneNumber(a.phoneNumber) \/ BadText(a.text) IN
        /\ invalid =>
               /\ thrown = Some([name |-> "ValidationError"])
               /\ httpRequests = << >>
        /\ (~invalid /\ ~a.apiKey) =>
               /\ thrown = Some([name |-> "ConfigurationError"])
               /\ httpRequests = << >>
        /\ (~invalid /\ a.apiKey) =>
               /\ Len(httpRequests) = 1
               /\ IsNumeric(httpRequests[1].number)
               /\ thrown # None => Val(thrown).name = "ApiError"
C17_Witness ==
    /\ sendArgs # None
    /\ Val(sendArgs).phoneNumber = <<"5", "s">>
    /\ ~BadText(Val(sendArgs).text) /\ Val(sendArgs).apiKey
    /\ thrown = Some([name |-> "ValidationError"])
    /\ httpRequests = << >>

\* the class an ApiError carries, read from its message
FailureClass(e) ==
    CASE e.message = TimeoutMessage -> "timeout"
      [] e.message = ConnectionMessage -> "connection"
      [] e.message = DnsMessage -> "dns"
      [] e.response # None -> "status"
      [] OTHER -> "none"

\* C18 (as stated): every ApiError of the delivery carries one of the four
\* classes.
C18_EveryFailureClassified ==
    SendFailure # None =>
        FailureClass(Val(SendFailure)) \in {"timeout", "connection", "dns", "status"}
\* C18: every failure after the request is an ApiError with the cleaned id
\* and the URL; a non-2xx response gives its status and body; an abort gives
\* the timeout; a message with 'fetch failed' or 'ECONNREFUSED' gives the
\* connection failure, else one with 'ENOTFOUND' or 'getaddrinfo' the
\* name-resolution failure; any other error keeps its message, with 502.
C18_FailureClassification ==
    /\ (httpRequests # << >> /\ thrown # None) => SendFailure # None
    /\ SendFailure # None =>
        LET e == Val(SendFailure)
            m == e.context.originalError IN
        /\ e.context.phoneNumber = CleanPhoneNumber(Val(sendArgs).phoneNumber)
        /\ e.context.url = Url
        /\ m = None =>
               /\ response # None
               /\ Val(response).status \notin 200..299
               /\ e.statusCode = Val(response).status
               /\ e.response = Some(Val(response).body)
               /\ FailureClass(e) = "status"
        /\ m # None =>
               /\ e.response = None
               /\ FailureClass(e) =
                      IF Val(m) = AbortError.message THEN "timeout"
                      ELSE IF MessageIncludes(Val(m), "fetch failed")
                              \/ MessageIncludes(Val(m), "ECONNREFUSED") THEN "connection"
                      ELSE IF MessageIncludes(Val(m), "ENOTFOUND")
                              \/ MessageIncludes(Val(m), "getaddrinfo") THEN "dns"
                      ELSE "none"
               /\ e.statusCode = (CASE FailureClass(e) = "timeout" -> 504
                                    [] FailureClass(e) \in {"connection", "dns"} -> 503
                                    [] OTHER -> 502)
               /\ FailureClass(e) = "none" => e.message = Val(m)
C18_Witness ==
    /\ SendFailure # None
    /\ response # None /\ Val(response).status = 200
    /\ Val(SendFailure).message = SyntaxError.message
    /\ Val(SendFailure).statusCode = 502
    /\ Val(SendFailure).context.url = Url


\* C30: once the endpoint answered the POST with a 2xx status, a
\* sendTextMessage call that has settled has returned (it did not throw),
\* whatever the body of the response was.
C30_AcceptedIsSuccess ==
    (response # None /\ Val(response).status \in 200..299
        /\ sendPc \in {"returned", "thrown"}) => sendPc = "returned"


\* the one envelope of a payload the processor is to read
OneLevel(body) == IF body.nested # None THEN Val(body.nested) ELSE body.top
CallsOf(r, op) == {i \in 1..Len(r.calls) : r.calls[i].op = op}

\* C27: every execution is decided by one envelope of its payload, the
\* nested jobData.body when there is one and the top level otherwise, never
\* an envelope nested deeper: a kind other than 'messages.upsert' there means
\* no call, the id resolved and delivered to is that envelope's remoteJid cut
\* at its first '@', and the text given to the agent is its conversation.
C27_OneEnvelopeInspected ==
    \A r \in AllRuns : r.data # None =>
        LET e == OneLevel(Val(r.data)) IN
        /\ e.event # Some(MessagesUpsert) => r.calls = << >>
        /\ (e.event = Some(MessagesUpsert) /\ Truthy(e.remoteJid)) =>
               /\ Len(r.calls) >= 1
               /\ r.calls[1].op = "getUserByPhone"
        /\ \A i \in 1..Len(r.calls) :
               /\ r.calls[i].op \in {"getUserByPhone", "sendTextMessage"} =>
                      /\ e.event = Some(MessagesUpsert)
                      /\ Truthy(e.remoteJid)
                      /\ CanonicalId(r.calls[i].phone, Val(e.remoteJid))
               /\ r.calls[i].op = "invoke" =>
                      /\ Truthy(e.conversation)
                      /\ r.calls[i].text = Val(e.conversation)
C27_Witness ==
    \E r \in AllRuns :
        /\ r.data # None
        /\ Val(r.data).top = EmptyEnvelope
        /\ Val(r.data).nested = Some(FullEnvelope)
        /\ CallsOf(r, "invoke") # {}
        /\ CallsOf(r, "sendTextMessage") # {}


\* C28: every execution that ended failed had an error raised by user
\* resolution (other than not-found), by the creation of the agent or by its
\* invocation.
C28_FailedOnlyByCollaborators ==
    \A r \in AllRuns : r.result = "failed" =>
        \/ Answered(r, "getUserByPhone", "DatabaseError")
        \/ Answered(r, "createProteinAgent", "throw")
        \/ Answered(r, "invoke", "throw")


\* job k has had an outcome while job j, enqueued before it, has had none
Overtaken(j, k) == j < k /\ queue[k].attempts # << >> /\ queue[j].attempts = << >>
HandedBefore(j, k) ==
    \E a, b \in 1..Len(handed) : a < b /\ handed[a] = j /\ handed[b] = k

SingleWorkerInOrder == \A j, k \in 1..Len(queue) : ~Overtaken(j, k)

\* every row there has been
AllRows == entries \cup {x.entry : x \in removed}
DeleteDone(c) == call[c].pc = "done" /\ call[c].tool = "delete"
IssuedDelete(c) == \E i \in 1..Len(call[c].ops) : call[c].ops[i] = "delete"
OthersRows(c) == {e \in AllRows : call[c].entryId = Some(e.id) /\ e.userId # call[c].userId}
OwnRows(c) == {e \in AllRows : call[c].entryId = Some(e.id) /\ e.userId = call[c].userId}
\* C23: a delete of an id for which the user has never had a row makes
\* deleteEntry return (not throw) a result with success = false and an error
\* text containing 'not found', no delete having been issued.
C23_ReturnsNotFound ==
    \A c \in Callers : (DeleteDone(c) /\ call[c].entryId \notin {None, Some(0)} /\ OwnRows(c) = {}) =>
        /\ call[c].repo \notin {"NotFoundError", "DatabaseError"}
        /\ ~call[c].response.success
        /\ MessageIncludes(call[c].response.error, "not found")
        /\ ~IssuedDelete(c)

C25_RemainingFromUpdatedTotal ==
    \A c \in Callers : (DeleteDone(c) /\ call[c].response.success /\ targets[call[c].userId] # None) =>
        call[c].response.remaining =
            Some(MaxOf(0, Val(targets[call[c].userId]) - Val(call[c].response.total)))

\* the day of an instant on the server's clock
LocalDay(t) == (t + tz) \div 2
RecordStep(c) == call'[c] # call[c] /\ call'[c].tool = "record"
\* C26: a record_protein_intake call stores exactly one new row, of the
\* calling user, with the grams given, the description given or 'Refeição',
\* and the timestamp given or the current instant; dailyTotal is the sum of
\* the user's rows of that row's day, the new one included; remaining is
\* max(0, target - dailyTotal), never negative, and absent without a target.
C26_RecordStoresOne ==
    [][\A c \in Callers : RecordStep(c) =>
        LET a == Val(call'[c].args)
            r == call'[c].response
            u == call'[c].userId IN
        \E e \in entries' :
            /\ e \notin entries /\ entries' = entries \cup {e}
            /\ e.userId = u /\ e.proteinGrams = a.proteinGrams
            /\ e.description = (IF a.description = None THEN <<"Refeição">> ELSE Val(a.description))
            /\ e.timestamp = (IF a.timestamp = None THEN Val(a.now) ELSE Val(a.timestamp))
            /\ r.success
            /\ r.total = Some(SumGrams({x \in entries' : x.userId = u
                                           /\ LocalDay(x.timestamp) = LocalDay(e.timestamp)}))
            /\ (targets[u] = None => r.remaining = None)
            /\ (targets[u] # None =>
                   /\ r.remaining = Some(MaxOf(0, Val(targets[u]) - Val(r.total)))
                   /\ Val(r.remaining) >= 0)]_allvars
C26_Witness == \E c \in Callers : call[c].pc = "done" /\ call[c].tool = "record"
        /\ tz # 0 /\ Val(call[c].args).description = None /\ Val(call[c].args).timestamp = None
        /\ call[c].response.total = Some(40) /\ call[c].response.remaining = Some(0)

BothDeleted(c, d) ==
    /\ c # d /\ DeleteDone(c) /\ DeleteDone(d)
    /\ call[c].userId = call[d].userId /\ call[c].entryId = call[d].entryId
    /\ IssuedDelete(c) /\ IssuedDelete(d)
\* C29: when two calls of one user for one id have both found the row and
\* both issued their delete, the row is removed once, exactly one of the
\* calls has deleteEntry return and the other has it throw NotFoundError.
C29_RacingDeletes ==
    \A c, d \in Callers : BothDeleted(c, d) =>
        /\ OwnRows(c) \cap entries = {}
        /\ Cardinality({x \in removed : call[c].entryId = Some(x.entry.id)}) = 1
        /\ {call[c].repo, call[d].repo} = {"returned", "NotFoundError"}
        /\ \A x \in {c, d} : call[x].repo = "NotFoundError" =>
               /\ ~call[x].response.success
               /\ MessageIncludes(call[x].response.error, "not found")
C29_Witness == \E c, d \in Callers : BothDeleted(c, d) /\ call[c].repo = "returned"
        /\ call[d].repo = "NotFoundError"

====
